---- MODULE Spec2Model ----
(***************************************************************************)
(* Exam Attempt Engine of exam_portal (quiz/views.py, quiz/admin.py,       *)
(* quiz/models.py).  The database rows, the browser sessions and the       *)
(* requests in flight are the state.  Every request is cut into steps at   *)
(* its database statements: one step holds at most one statement (or one   *)
(* transaction.atomic block) together with the local computation that      *)
(* follows it, so that requests interleave as they do under autocommit.    *)
(***************************************************************************)
EXTENDS Integers, FiniteSets, Sequences, TLC

\* ------------------------------------------------------------------ bounds
MaxClock == 2          \* the clock runs over 0..MaxClock ticks
MaxAttempts == 2       \* Attempt primary keys 1..MaxAttempts are handed out
MaxPurges == 1         \* staff resets (Answer purges) per Attempt
NumQuestions == 2      \* questions of a quiz with questions, traversed in (order, id)
TicksPerSecond == 2    \* clock resolution: one tick is half a second
MaxSheets == 2         \* sheets of an uploaded workbook that name a domain

\* ---------------------------------------------------------- configuration
\* Quiz.per_question_seconds as configured (models.py default is 50).
PerQuestionSeconds == 1

Participants == {1, 2}
Candidates == {1}
Domains == {"deputy", "counselor"}          \* two of VALID_DOMAINS
Sessions == {"s1", "s2"}                    \* browser sessions (session_key)
Slots == {"r1", "r2"}                       \* requests in flight at once
AttemptIds == 1..MaxAttempts
QIdx == 0..(NumQuestions - 1)
Times == 0..MaxClock
NoTime == -1                                \* a NULL DateTimeField
NoId == 0                                   \* a missing key / NULL foreign key

\* ExamWindow rows: one active window per domain, [starts_at, ends_at] in ticks.
WindowStartsAt(d) == IF d = "deputy" THEN 0 ELSE 1
WindowEndsAt(d) == IF d = "deputy" THEN 1 ELSE 2

VARIABLES
    now,            \* timezone.now(), in ticks
    quiz,           \* the active Quiz of each domain: [questions, per_question_seconds]
    participant,    \* Participant rows: [locked_domain, has_taken_exam]
    attempt,        \* Attempt rows by primary key
    answer,         \* Answer rows by (attempt, question index)
    nextAttemptId,  \* the Attempt primary-key sequence
    session,        \* the session store, by session key
    req,            \* the requests in flight, one per slot
    staff,          \* the staff request in flight
    advanced        \* history: auto-advances that moved an Attempt's pointer off a question

vars == <<now, quiz, participant, attempt, answer, nextAttemptId, session, req, staff, advanced>>

db == <<participant, attempt, answer, nextAttemptId>>

\* Enrollment.objects.filter(participant=p, is_allowed=True): the domains of
\* the participant's allowed Enrollment rows, kept with the Participant row.
AllowedDomains(p) == participant[p].enrollments

\* _attempt_total_questions: Question.objects.filter(quiz=quiz).count(); the
\* question bank is fixed during an attempt.
TotalQuestions(d) == quiz[d].questions

\* The Quiz rows as configured: every quiz has its questions.
ConfiguredQuiz ==
    [live |-> TRUE, is_active |-> TRUE, questions |-> NumQuestions,
     per_question_seconds |-> PerQuestionSeconds]

\* ------------------------------------------------------------------- rows
NoAttempt ==
    [live |-> FALSE, participant |-> NoId, domain |-> "", session_key |-> "",
     current_index |-> 0, score |-> 0, timed_out_count |-> 0,
     is_finished |-> FALSE, finished_reason |-> "normal", finished_at |-> NoTime,
     purges |-> 0]

NoAnswer ==
    [live |-> FALSE, pk |-> 0, started_at |-> NoTime, answered_at |-> NoTime,
     selected_choice |-> "null"]

EmptySession ==
    [participant_id |-> NoId, confirmed |-> FALSE, attempt_id |-> NoId,
     selected_domain |-> "", open_domains |-> {}]

\* What a request keeps of the rows it has read (its in-memory model instances).
NoSnap == [current_index |-> 0, score |-> 0]

NoAnsSnap == [pk |-> 0, started_at |-> NoTime]

IdleReq ==
    [pc |-> "idle", sess |-> "", sd |-> EmptySession, pid |-> NoId, dom |-> "",
     win |-> FALSE, taken |-> FALSE, aid |-> NoId, a |-> NoSnap, tcount |-> 0,
     ans |-> NoAnsSnap, method |-> "", sel |-> "null"]

IdleStaff == [pc |-> "idle", aid |-> NoId, pid |-> NoId]

\* ---------------------------------------------------------------- helpers
\* _get_active_window(domain) is not None, evaluated at time t.
ActiveWindowAt(d, t) == WindowStartsAt(d) <= t /\ t <= WindowEndsAt(d)

_get_active_window(d) == ActiveWindowAt(d, now)

_is_in_window(d) == _get_active_window(d)

Max(S) == CHOOSE x \in S : \A y \in S : y <= x

\* request r ends: the session middleware saves the session when the view
\* modified it; a response that did not touch the session leaves the store alone.
Respond(r, sd) ==
    /\ session' = [session EXCEPT ![req[r].sess] = sd]
    /\ req' = [req EXCEPT ![r] = IdleReq]

RespondUnsaved(r) ==
    /\ req' = [req EXCEPT ![r] = IdleReq]
    /\ UNCHANGED session

Init ==
    /\ now = 0
    /\ quiz = [d \in Domains |-> ConfiguredQuiz]
    /\ participant = [p \in Participants |->
           [locked_domain |-> "", has_taken_exam |-> FALSE,
            is_allowed |-> TRUE, enrollments |-> Domains]]
    /\ attempt = [i \in AttemptIds |-> NoAttempt]
    /\ answer = [k \in AttemptIds \X QIdx |-> NoAnswer]
    /\ nextAttemptId = 1
    /\ session = [s \in Sessions |-> EmptySession]
    /\ req = [r \in Slots |-> IdleReq]
    /\ staff = IdleStaff
    /\ advanced = [k \in AttemptIds \X QIdx |-> 0]

\* ------------------------------------------------------------------ clock
Tick ==
    /\ now < MaxClock
    /\ now' = now + 1
    /\ UNCHANGED <<quiz, participant, attempt, answer, nextAttemptId, session, req, staff, advanced>>

\* ------------------------------------------------------------- login_view
\* POST with valid credentials of participant p in session s (one step: the
\* view only reads the database and writes the session).
login_view(s, p) ==
    LET locked == participant[p].locked_domain
        allowed == AllowedDomains(p)
        open_now == {d \in allowed : _is_in_window(d)}
        base == [session[s] EXCEPT !.participant_id = p, !.confirmed = FALSE]
    IN  /\ participant[p].is_allowed
        /\ allowed # {}
        /\ IF locked # ""
           THEN /\ locked \in allowed
                /\ _is_in_window(locked)
                /\ session' = [session EXCEPT ![s] =
                       [base EXCEPT !.selected_domain = locked, !.open_domains = {}]]
           ELSE /\ open_now # {}
                /\ IF Cardinality(open_now) > 1
                   THEN session' = [session EXCEPT ![s] =
                            [base EXCEPT !.selected_domain = "", !.open_domains = open_now]]
                   ELSE session' = [session EXCEPT ![s] =
                            [base EXCEPT !.selected_domain = CHOOSE d \in open_now : TRUE,
                                         !.open_domains = {}]]
        /\ UNCHANGED <<now, quiz, participant, attempt, answer, nextAttemptId, req, staff, advanced>>

\* ------------------------------------------------------------ logout_view
\* A logout that also puts the participant back to the state before the exam.
logout_view_unlocking(s) ==
    LET pid == session[s].participant_id
    IN  /\ pid # NoId
        /\ session' = [session EXCEPT ![s] = EmptySession]
        /\ participant' = [participant EXCEPT ![pid].has_taken_exam = FALSE,
                                              ![pid].locked_domain = ""]
        /\ UNCHANGED <<now, quiz, attempt, answer, nextAttemptId, req, staff, advanced>>

logout_view(s) ==
    /\ session[s] # EmptySession
    /\ session' = [session EXCEPT ![s] = EmptySession]
    /\ UNCHANGED <<now, quiz, participant, attempt, answer, nextAttemptId, req, staff, advanced>>

\* ----------------------------------------------------------- confirm_view
\* The unfinished Attempt confirm_view resumes: the newest by (-started_at, -id).
OpenAttempts(p, d) ==
    {i \in AttemptIds : /\ attempt[i].live
                        /\ attempt[i].participant = p
                        /\ attempt[i].domain = d
                        /\ ~attempt[i].is_finished}

\* has_taken_exam of the row p read at the start of the request (line 517),
\* before the lock: what the re-check would see without select_for_update.
P2HasTakenExamStale(r) == req[r].taken

\* p2.has_taken_exam, read under select_for_update inside transaction.atomic.
P2HasTakenExam(r) == participant[req[r].pid].has_taken_exam

\* POST, up to the first write: the session is loaded, the Participant row and
\* the window are read, and SESSION_CONFIRMED is set (on the request's copy).
ConfirmStart(r, s) ==
    LET sd == session[s]
        pid == sd.participant_id
        domain == sd.selected_domain
        locked == participant[pid].locked_domain
        window == _get_active_window(domain)
        sd2 == [sd EXCEPT !.confirmed = TRUE]
        started == [IdleReq EXCEPT !.sess = s, !.sd = sd2, !.pid = pid, !.dom = domain,
                                   !.win = window,
                                   !.taken = participant[pid].has_taken_exam]
    IN  /\ req[r].pc = "idle"
        /\ pid # NoId
        /\ domain \in Domains
        /\ ~(locked # "" /\ locked # domain)
        /\ IF locked = ""
           THEN /\ req' = [req EXCEPT ![r] = [started EXCEPT !.pc = "c_lock"]]
                /\ UNCHANGED session
           ELSE IF ~window
           THEN /\ session' = [session EXCEPT ![s] = sd2]
                /\ UNCHANGED req
           ELSE /\ req' = [req EXCEPT ![r] = [started EXCEPT !.pc = "c_find"]]
                /\ UNCHANGED session
        /\ UNCHANGED <<now, quiz, db, staff, advanced>>

\* p.save(update_fields=["locked_domain", "locked_at"]) of the row read at the
\* start, then the window check.
ConfirmLock(r) ==
    /\ req[r].pc = "c_lock"
    /\ participant' = [participant EXCEPT ![req[r].pid].locked_domain = req[r].dom]
    /\ IF ~req[r].win
       THEN Respond(r, req[r].sd)
       ELSE /\ req' = [req EXCEPT ![r].pc = "c_find"]
            /\ UNCHANGED session
    /\ UNCHANGED <<now, quiz, attempt, answer, nextAttemptId, staff, advanced>>

\* The query for an unfinished Attempt, then the has_taken_exam test on the row
\* read at the start.
ConfirmFind(r) ==
    LET open == OpenAttempts(req[r].pid, req[r].dom)
    IN  /\ req[r].pc = "c_find"
        /\ IF open # {}
           THEN Respond(r, [req[r].sd EXCEPT !.attempt_id = Max(open)])
           ELSE IF req[r].taken
           THEN Respond(r, req[r].sd)
           ELSE /\ req' = [req EXCEPT ![r].pc = "c_create"]
                /\ UNCHANGED session
        /\ UNCHANGED <<now, quiz, db, staff, advanced>>

\* with transaction.atomic(): lock the Participant, re-check, create the Attempt
\* and raise has_taken_exam.
ConfirmCreate(r) ==
    LET pid == req[r].pid
        id == nextAttemptId
    IN  /\ req[r].pc = "c_create"
        /\ IF P2HasTakenExam(r)
           THEN /\ Respond(r, req[r].sd)
                /\ UNCHANGED db
           ELSE /\ id <= MaxAttempts
                /\ attempt' = [attempt EXCEPT ![id] =
                       [NoAttempt EXCEPT !.live = TRUE, !.participant = pid,
                                         !.domain = req[r].dom, !.session_key = req[r].sess]]
                /\ nextAttemptId' = id + 1
                /\ participant' = [participant EXCEPT ![pid].has_taken_exam = TRUE]
                /\ Respond(r, [req[r].sd EXCEPT !.attempt_id = id])
                /\ UNCHANGED answer
        /\ UNCHANGED <<now, quiz, staff, advanced>>

\* POST requests of the sessions S, run in the slots R.
confirm_view(R, S) ==
    \/ \E r \in R, s \in S : ConfirmStart(r, s)
    \/ \E r \in R : ConfirmLock(r)
    \/ \E r \in R : ConfirmFind(r)
    \/ \E r \in R : ConfirmCreate(r)

\* ---------------------------------------------------- deadline arithmetic
\* _attempt_deadline: started_at + int(per_question_seconds or 50) seconds.
_attempt_deadline(started_at, per_question_seconds) ==
    started_at + (IF per_question_seconds = 0 THEN 50 ELSE per_question_seconds)
                 * TicksPerSecond

\* _attempt_remaining_seconds: int(max(0, (deadline - now).total_seconds())).
_attempt_remaining_seconds(sec, started_at, t) ==
    LET left == _attempt_deadline(started_at, sec) - t
    IN  (IF left > 0 THEN left ELSE 0) \div TicksPerSecond

\* _attempt_is_overdue, for an Attempt the request read as unfinished.
_attempt_is_overdue(sec, started_at, t) == _attempt_remaining_seconds(sec, started_at, t) <= 0

\* _attempt_is_overdue(a, ans) as request r evaluates it: the quiz of its
\* Attempt, the Answer row it read, the clock now.
IsOverdue(r) ==
    _attempt_is_overdue(quiz[req[r].dom].per_question_seconds, req[r].ans.started_at, now)

\* ---------------------------------------------------------- question_view
\* What a POST carries: skip=1, no choice id (or a number that is the id of no
\* Choice), a choice id that is not a number, or the id of a Choice row,
\* named by its question and whether is_correct.
Payloads ==
    {<<"skip", 0>>, <<"missing", 0>>, <<"garbage", 0>>} \cup ({"right", "wrong"} \X QIdx)

\* Choice.objects.filter(id=choice_id, question=q).first(), None under skip.
\* filter(id=...) raises ValueError for a value that is not a number
\* ("invalid": the request ends with a 500 at that statement).
SelectedChoice(payload, q) ==
    IF payload[1] \in {"skip", "missing"} THEN "null"
    ELSE IF payload[1] = "garbage" THEN "invalid"
    ELSE IF payload[2] = q THEN payload[1] ELSE "null"

\* _attempt_current_question(a) is not None, for the index the request read.
HasCurrentQuestion(r) == req[r].a.current_index < TotalQuestions(req[r].dom)

AfterLockPc(idx, d) == IF idx < TotalQuestions(d) THEN "q_ans" ELSE "q_noq"

\* _finish_attempt that also moves the pointer to the end of the quiz.
_finish_attempt_advancing(row, reason) ==
    [row EXCEPT !.is_finished = TRUE, !.finished_reason = reason, !.finished_at = now,
                !.current_index = TotalQuestions(row.domain)]

\* _finish_attempt(a, reason) for a row read as unfinished:
\* save(update_fields=["is_finished", "finished_reason", "finished_at"]).
_finish_attempt(row, reason) ==
    [row EXCEPT !.is_finished = TRUE, !.finished_reason = reason, !.finished_at = now]

\* GET or POST up to the first statement after the Attempt (with its
\* Participant) is read: the session checks and the locked-domain check.
QuestionStart(r, s, method, payload) ==
    LET sd == session[s]
        aid == sd.attempt_id
        a == attempt[aid]
        locked == participant[a.participant].locked_domain
        started == [IdleReq EXCEPT !.sess = s, !.pid = a.participant, !.dom = a.domain,
                       !.aid = aid,
                       !.a = [current_index |-> a.current_index, score |-> a.score],
                       !.tcount = a.timed_out_count,
                       !.method = method,
                       !.sel = SelectedChoice(payload, a.current_index)]
    IN  /\ req[r].pc = "idle"
        /\ sd.participant_id # NoId /\ sd.confirmed /\ aid # NoId
        /\ a.live
        /\ a.participant = sd.participant_id
        /\ ~a.is_finished
        /\ method = "GET" => payload = <<"missing", 0>>
        /\ req' = [req EXCEPT ![r] = [started EXCEPT !.pc =
               IF locked # "" /\ locked # a.domain THEN "q_block"
               ELSE IF locked = "" THEN "q_lock"
               ELSE AfterLockPc(a.current_index, a.domain)]]
        /\ UNCHANGED <<now, quiz, db, session, staff, advanced>>

\* The Attempt a question request has read when it is turned away to the
\* login page: none when the middleware or the first session check refuses
\* it, the session's Attempt when the refusal is the participant comparison,
\* which follows get_object_or_404.
RefusedAfterRead(s) ==
    LET sd == session[s]
    IN  IF sd.participant_id # NoId /\ sd.confirmed /\ sd.attempt_id # NoId
        THEN sd.attempt_id ELSE NoId

\* GET or POST of a session that ExamSessionGuard or the entry checks of
\* question_view refuse: the response is the redirect to the login page.
QuestionRefuse(r, s) ==
    LET sd == session[s]
        aid == RefusedAfterRead(s)
    IN  /\ req[r].pc = "idle"
        /\ \/ sd.attempt_id = NoId
           \/ sd.participant_id = NoId
           \/ ~sd.confirmed
           \/ attempt[sd.attempt_id].live /\ attempt[sd.attempt_id].participant # sd.participant_id
        /\ req' = [req EXCEPT ![r] =
               IF aid = NoId THEN [IdleReq EXCEPT !.pc = "q_login", !.sess = s]
               ELSE [IdleReq EXCEPT !.pc = "q_login", !.sess = s, !.aid = aid,
                        !.pid = attempt[aid].participant, !.dom = attempt[aid].domain,
                        !.a = [current_index |-> attempt[aid].current_index,
                               score |-> attempt[aid].score],
                        !.tcount = attempt[aid].timed_out_count]]
        /\ UNCHANGED <<now, quiz, db, session, staff, advanced>>

QuestionRedirect(r) ==
    /\ req[r].pc = "q_login"
    /\ req' = [req EXCEPT ![r] = IdleReq]
    /\ UNCHANGED <<now, quiz, db, session, staff, advanced>>

\* A save(update_fields=...) of an Attempt row that is gone raises
\* DatabaseError: the request ends with a 500 and nothing is written.
QuestionBlock(r) ==
    /\ req[r].pc = "q_block"
    /\ attempt' = IF attempt[req[r].aid].live
                  THEN [attempt EXCEPT ![req[r].aid] = _finish_attempt(@, "blocked")]
                  ELSE attempt
    /\ RespondUnsaved(r)
    /\ UNCHANGED <<now, quiz, participant, answer, nextAttemptId, staff, advanced>>

QuestionLock(r) ==
    /\ req[r].pc = "q_lock"
    /\ participant' = [participant EXCEPT ![req[r].pid].locked_domain = req[r].dom]
    /\ req' = [req EXCEPT ![r].pc = AfterLockPc(req[r].a.current_index, req[r].dom)]
    /\ UNCHANGED <<now, quiz, attempt, answer, nextAttemptId, session, staff, advanced>>

QuestionNoQuestion(r) ==
    /\ req[r].pc = "q_noq"
    /\ attempt' = IF attempt[req[r].aid].live
                  THEN [attempt EXCEPT ![req[r].aid] = _finish_attempt(@, "normal")]
                  ELSE attempt
    /\ RespondUnsaved(r)
    /\ UNCHANGED <<now, quiz, participant, answer, nextAttemptId, staff, advanced>>

\* An _ensure_answer_row that stamps started_at again on every presentation.
EnsureAnswerRestamp(r) ==
    LET k == <<req[r].aid, req[r].a.current_index>>
        row == answer[k]
    IN  /\ req[r].pc = "q_ans"
        /\ IF row.live
           THEN /\ answer' = [answer EXCEPT ![k].started_at = now]
                /\ req' = [req EXCEPT ![r].pc = "q_go",
                                      ![r].ans = [pk |-> row.pk, started_at |-> now]]
           ELSE /\ req' = [req EXCEPT ![r].pc = "q_create"]
                /\ UNCHANGED answer
        /\ UNCHANGED <<now, quiz, participant, attempt, nextAttemptId, session, staff, advanced>>

\* _ensure_answer_row: Answer.objects.filter(attempt, question).first() ...
EnsureAnswerRead(r) ==
    LET row == answer[<<req[r].aid, req[r].a.current_index>>]
    IN  /\ req[r].pc = "q_ans"
        /\ req' = IF row.live
                  THEN [req EXCEPT ![r].pc = "q_go",
                                   ![r].ans = [pk |-> row.pk, started_at |-> row.started_at]]
                  ELSE [req EXCEPT ![r].pc = "q_create"]
        /\ UNCHANGED <<now, quiz, db, session, staff, advanced>>

\* ... and Answer.objects.create(attempt, question): started_at defaults to
\* timezone.now.  unique_together (attempt, question) and the foreign key to the
\* Attempt make the INSERT raise IntegrityError (a 500) when they are violated.
\* The primary key is (attempt, question, purges of the attempt so far): rows
\* of one attempt and question created after a purge are different rows.
EnsureAnswerCreate(r) ==
    LET k == <<req[r].aid, req[r].a.current_index>>
        pk == attempt[req[r].aid].purges
    IN  /\ req[r].pc = "q_create"
        /\ IF answer[k].live \/ ~attempt[req[r].aid].live
           THEN /\ RespondUnsaved(r)
                /\ UNCHANGED answer
           ELSE /\ answer' = [answer EXCEPT ![k] =
                       [NoAnswer EXCEPT !.live = TRUE, !.pk = pk, !.started_at = now]]
                /\ req' = [req EXCEPT ![r].pc = "q_go",
                                      ![r].ans = [pk |-> pk, started_at |-> now]]
                /\ UNCHANGED session
        /\ UNCHANGED <<now, quiz, participant, attempt, nextAttemptId, staff, advanced>>

\* GET: auto-advance when the deadline has passed, else render the question.
\* a.save(update_fields=["timed_out_count", "current_index"]) writes the values
\* computed from the row as the request read it.
QuestionGet(r) ==
    LET aid == req[r].aid
    IN  /\ req[r].pc = "q_go"
        /\ req[r].method = "GET"
        /\ attempt' = IF IsOverdue(r) /\ attempt[aid].live
                      THEN [attempt EXCEPT ![aid].timed_out_count = req[r].tcount + 1,
                                           ![aid].current_index = req[r].a.current_index + 1]
                      ELSE attempt
        /\ advanced' = IF /\ IsOverdue(r)
                          /\ attempt[aid].live
                          /\ attempt[aid].current_index = req[r].a.current_index
                          /\ advanced[<<aid, req[r].a.current_index>>] < 2
                       THEN [advanced EXCEPT ![<<aid, req[r].a.current_index>>] = @ + 1]
                       ELSE advanced
        /\ RespondUnsaved(r)
        /\ UNCHANGED <<now, quiz, participant, answer, nextAttemptId, staff>>

\* ans.save(update_fields=["answered_at", "selected_choice"]); when no row has
\* the primary key the except branch runs ans.save(), which inserts the
\* in-memory row again (IntegrityError if the unique pair or the Attempt forbid).
AnswerSave(r, choice) ==
    LET k == <<req[r].aid, req[r].a.current_index>>
        row == answer[k]
    IN  IF row.live /\ row.pk = req[r].ans.pk
        THEN answer' = [answer EXCEPT ![k].answered_at = now, ![k].selected_choice = choice]
        ELSE /\ ~row.live
             /\ attempt[req[r].aid].live
             /\ answer' = [answer EXCEPT ![k] =
                    [live |-> TRUE, pk |-> req[r].ans.pk, started_at |-> req[r].ans.started_at,
                     answered_at |-> now, selected_choice |-> choice]]

AnswerSaveFails(r) ==
    LET row == answer[<<req[r].aid, req[r].a.current_index>>]
    IN  ~(row.live /\ row.pk = req[r].ans.pk) /\ (row.live \/ ~attempt[req[r].aid].live)

\* POST: the choice is looked up (an exception ends the request there), the
\* Answer is written (null choice when overdue), then score and
\* current_index are advanced on the request's copy of the Attempt, and so is
\* timed_out_count when overdue.
QuestionPostAnswer(r) ==
    LET overdue == IsOverdue(r)
        choice == IF overdue THEN "null" ELSE req[r].sel
        gain == IF ~overdue /\ req[r].sel = "right" THEN 1 ELSE 0
    IN  /\ req[r].pc = "q_go"
        /\ req[r].method = "POST"
        /\ IF req[r].sel = "invalid" \/ AnswerSaveFails(r)
           THEN /\ RespondUnsaved(r)
                /\ UNCHANGED answer
           ELSE /\ AnswerSave(r, choice)
                /\ req' = [req EXCEPT ![r].pc = "q_save",
                              ![r].tcount = req[r].tcount + (IF overdue THEN 1 ELSE 0),
                              ![r].a = [current_index |-> req[r].a.current_index + 1,
                                        score |-> req[r].a.score + gain]]
                /\ UNCHANGED session
        /\ UNCHANGED <<now, quiz, participant, attempt, nextAttemptId, staff, advanced>>

\* a.save(update_fields=["score", "current_index"]).
AttemptSave(r) ==
    attempt' = IF attempt[req[r].aid].live
               THEN [attempt EXCEPT ![req[r].aid].score = req[r].a.score,
                                    ![req[r].aid].current_index = req[r].a.current_index]
               ELSE attempt

\* if a.current_index >= total: _finish_attempt(a, "normal") first, and the
\* score and pointer in a second statement.
QuestionPostSave(r) ==
    /\ req[r].pc = "q_save"
    /\ IF ~HasCurrentQuestion(r)
       THEN IF attempt[req[r].aid].live
            THEN /\ attempt' = [attempt EXCEPT ![req[r].aid] = _finish_attempt(@, "normal")]
                 /\ req' = [req EXCEPT ![r].pc = "q_save2"]
                 /\ UNCHANGED session
            ELSE /\ RespondUnsaved(r)
                 /\ UNCHANGED attempt
       ELSE /\ AttemptSave(r)
            /\ RespondUnsaved(r)
    /\ UNCHANGED <<now, quiz, participant, answer, nextAttemptId, staff, advanced>>

QuestionPostSave2(r) ==
    /\ req[r].pc = "q_save2"
    /\ AttemptSave(r)
    /\ RespondUnsaved(r)
    /\ UNCHANGED <<now, quiz, participant, answer, nextAttemptId, staff, advanced>>

\* The steps of a question_view request whose participant is not locked to
\* the Attempt's domain (lines 641-651 of views.py).
QuestionLockStep(r) ==
    \/ QuestionBlock(r)
    \/ QuestionLock(r)

\* The steps of a question_view request from the current question on.
QuestionStep(r) ==
    \/ QuestionNoQuestion(r)
    \/ EnsureAnswerRead(r)
    \/ EnsureAnswerCreate(r)
    \/ QuestionGet(r)
    \/ QuestionPostAnswer(r)
    \/ QuestionPostSave(r)
    \/ QuestionPostSave2(r)

question_view(R, S) ==
    \/ \E r \in R, s \in S, m \in {"GET", "POST"}, c \in Payloads :
           QuestionStart(r, s, m, c)
    \/ \E r \in R : QuestionStep(r)

question_view_lock(R) == \E r \in R : QuestionLockStep(r)

\* ------------------------------------------------------------ finish_view
\* GET /finish/ (the session guard lets the path through): the request arrives
\* in session s ...
FinishStart(r, s) ==
    /\ req[r].pc = "idle"
    /\ req' = [req EXCEPT ![r] = [IdleReq EXCEPT !.pc = "f_render", !.sess = s,
                                                 !.aid = session[s].attempt_id]]
    /\ UNCHANGED <<now, quiz, db, session, staff, advanced>>

\* ... and the view renders quiz/finish.html: no row is read or written.
FinishRender(r) ==
    /\ req[r].pc = "f_render"
    /\ RespondUnsaved(r)
    /\ UNCHANGED <<now, quiz, db, staff, advanced>>

finish_view(R, S) ==
    \/ \E r \in R, s \in S : FinishStart(r, s)
    \/ \E r \in R : FinishRender(r)

\* ----------------------------------------------------- choose_domain_view
\* The request up to the transaction: a locked participant is sent on with the
\* locked domain; otherwise the open domains come from the session (or, when
\* the session has none, from the enrollments and windows).
ChooseDomainStart(r, s, method, choice) ==
    LET sd == session[s]
        pid == sd.participant_id
        locked == participant[pid].locked_domain
        open_domains == IF sd.open_domains # {} THEN sd.open_domains
                        ELSE {d \in AllowedDomains(pid) : _is_in_window(d)}
        dom == IF Cardinality(open_domains) = 1 THEN CHOOSE d \in open_domains : TRUE
               ELSE choice
    IN  /\ req[r].pc = "idle"
        /\ pid # NoId
        /\ IF locked # ""
           THEN /\ session' = [session EXCEPT ![s].selected_domain = locked]
                /\ session'[s] # session[s]
                /\ UNCHANGED req
           ELSE /\ open_domains # {}
                /\ Cardinality(open_domains) > 1 => method = "POST" /\ choice \in open_domains
                /\ req' = [req EXCEPT ![r] =
                       [IdleReq EXCEPT !.pc = "d_lock", !.sess = s, !.sd = sd, !.pid = pid,
                                       !.dom = dom]]
                /\ UNCHANGED session
        /\ UNCHANGED <<now, quiz, db, staff, advanced>>

\* with transaction.atomic(): lock the Participant row and set locked_domain
\* if it is still empty; the session takes the chosen domain either way.
ChooseDomainLock(r) ==
    /\ req[r].pc = "d_lock"
    /\ participant' = IF participant[req[r].pid].locked_domain = ""
                      THEN [participant EXCEPT ![req[r].pid].locked_domain = req[r].dom]
                      ELSE participant
    /\ Respond(r, [req[r].sd EXCEPT !.selected_domain = req[r].dom])
    /\ UNCHANGED <<now, quiz, attempt, answer, nextAttemptId, staff, advanced>>

choose_domain_view(R, S) ==
    \/ \E r \in R, s \in S, m \in {"GET", "POST"}, d \in Domains :
           ChooseDomainStart(r, s, m, d)
    \/ \E r \in R : ChooseDomainLock(r)

\* ------------------------------------------------------------------ staff
\* staff_force_finish_attempt_view and AttemptAdmin.do_finish_view: the row is
\* read, and if it was unfinished the three fields are saved.
ForceFinishFetch(i, pc) ==
    /\ staff.pc = "idle"
    /\ attempt[i].live
    /\ ~attempt[i].is_finished
    /\ staff' = [IdleStaff EXCEPT !.pc = pc, !.aid = i]
    /\ UNCHANGED <<now, quiz, db, session, req, advanced>>

ForceFinishSave(pc) ==
    /\ staff.pc = pc
    /\ attempt' = IF attempt[staff.aid].live
                  THEN [attempt EXCEPT ![staff.aid] = _finish_attempt(@, "forced")]
                  ELSE attempt
    /\ staff' = IdleStaff
    /\ UNCHANGED <<now, quiz, participant, answer, nextAttemptId, session, req, advanced>>

staff_force_finish_attempt_view ==
    \/ \E i \in AttemptIds : ForceFinishFetch(i, "ff_save")
    \/ ForceFinishSave("ff_save")

do_finish_view ==
    \/ \E i \in AttemptIds : ForceFinishFetch(i, "df_save")
    \/ ForceFinishSave("df_save")

\* AttemptAdmin.action_force_finish on the selected Attempts Q: one UPDATE of
\* the rows of Q that are unfinished when it runs.
action_force_finish(Q) ==
    /\ staff.pc = "idle"
    /\ \E i \in Q : attempt[i].live /\ ~attempt[i].is_finished
    /\ attempt' = [i \in AttemptIds |->
           IF i \in Q /\ attempt[i].live /\ ~attempt[i].is_finished
           THEN [attempt[i] EXCEPT !.is_finished = TRUE, !.finished_at = now,
                                   !.finished_reason = "forced"]
           ELSE attempt[i]]
    /\ UNCHANGED <<now, quiz, participant, answer, nextAttemptId, session, req, staff, advanced>>

\* ParticipantAdmin and EnrollmentAdmin (list_editable is_allowed): staff set
\* is_allowed of a Participant, or of the participant's Enrollment in domain d.
ParticipantAdminSetAllowed(p, v) ==
    /\ staff.pc = "idle"
    /\ participant[p].is_allowed # v
    /\ participant' = [participant EXCEPT ![p].is_allowed = v]
    /\ UNCHANGED <<now, quiz, attempt, answer, nextAttemptId, session, req, staff, advanced>>

EnrollmentAdminSetAllowed(p, d, v) ==
    /\ staff.pc = "idle"
    /\ (d \in participant[p].enrollments) # v
    /\ participant' = [participant EXCEPT ![p].enrollments =
           IF v THEN @ \cup {d} ELSE @ \ {d}]
    /\ UNCHANGED <<now, quiz, attempt, answer, nextAttemptId, session, req, staff, advanced>>

\* The rows a purge of the Answers of Attempt i leaves.
AnswersWithout(i) == [k \in AttemptIds \X QIdx |-> IF k[1] = i THEN NoAnswer ELSE answer[k]]

AdvancedWithout(i) == [k \in AttemptIds \X QIdx |-> IF k[1] = i THEN 0 ELSE advanced[k]]

\* staff_reset_attempt_view: get_object_or_404, then one transaction.
StaffResetFetch(i) ==
    /\ staff.pc = "idle"
    /\ attempt[i].live
    /\ attempt[i].purges < MaxPurges
    /\ staff' = [IdleStaff EXCEPT !.pc = "vr_txn", !.aid = i, !.pid = attempt[i].participant]
    /\ UNCHANGED <<now, quiz, db, session, req, advanced>>

\* A reset of the Attempt row that leaves finished_at as it is.
ResetAttemptRowKeepingFinishedAt(row) ==
    [row EXCEPT !.current_index = 0, !.score = 0, !.is_finished = FALSE,
                !.finished_reason = "normal", !.timed_out_count = 0, !.purges = @ + 1]

\* The Attempt the transaction of staff_reset_attempt_view leaves.
ResetAttemptRow(row) ==
    [row EXCEPT !.current_index = 0, !.score = 0, !.is_finished = FALSE,
                !.finished_reason = "normal", !.finished_at = NoTime,
                !.timed_out_count = 0, !.purges = @ + 1]

\* The Participant both resets leave.
UnlockedParticipant(row) == [row EXCEPT !.has_taken_exam = FALSE, !.locked_domain = ""]

\* with transaction.atomic(): Answers deleted, Attempt fields saved, Participant
\* saved.  A row that is gone makes the save raise and the transaction roll back.
StaffResetTxn ==
    /\ staff.pc = "vr_txn"
    /\ IF attempt[staff.aid].live
       THEN /\ answer' = AnswersWithout(staff.aid)
            /\ attempt' = [attempt EXCEPT ![staff.aid] = ResetAttemptRow(@)]
            /\ participant' = [participant EXCEPT ![staff.pid] = UnlockedParticipant(@)]
            /\ advanced' = AdvancedWithout(staff.aid)
       ELSE UNCHANGED <<answer, attempt, participant, advanced>>
    /\ staff' = IdleStaff
    /\ UNCHANGED <<now, quiz, nextAttemptId, session, req>>

staff_reset_attempt_view ==
    \/ \E i \in AttemptIds : StaffResetFetch(i)
    \/ StaffResetTxn

\* AttemptAdmin.do_reset_view: four statements, each committed on its own.
DoResetFetch(i) ==
    /\ staff.pc = "idle"
    /\ attempt[i].live
    /\ attempt[i].purges < MaxPurges
    /\ staff' = [IdleStaff EXCEPT !.pc = "ar_answers", !.aid = i, !.pid = attempt[i].participant]
    /\ UNCHANGED <<now, quiz, db, session, req, advanced>>

\* Answer.objects.filter(attempt=a).delete()
DoResetAnswers ==
    /\ staff.pc = "ar_answers"
    /\ answer' = AnswersWithout(staff.aid)
    /\ attempt' = IF attempt[staff.aid].live
                  THEN [attempt EXCEPT ![staff.aid].purges = @ + 1]
                  ELSE attempt
    /\ advanced' = AdvancedWithout(staff.aid)
    /\ staff' = [staff EXCEPT !.pc = "ar_attempt"]
    /\ UNCHANGED <<now, quiz, participant, nextAttemptId, session, req>>

\* a.delete(), which cascades to the Answers.
DoResetAttempt ==
    /\ staff.pc = "ar_attempt"
    /\ attempt' = [attempt EXCEPT ![staff.aid] = NoAttempt]
    /\ answer' = AnswersWithout(staff.aid)
    /\ advanced' = AdvancedWithout(staff.aid)
    /\ staff' = [staff EXCEPT !.pc = "ar_participant"]
    /\ UNCHANGED <<now, quiz, participant, nextAttemptId, session, req>>

\* Participant.objects.filter(id=pid).update(...)
DoResetParticipant ==
    /\ staff.pc = "ar_participant"
    /\ participant' = [participant EXCEPT ![staff.pid] = UnlockedParticipant(@)]
    /\ staff' = IdleStaff
    /\ UNCHANGED <<now, quiz, attempt, answer, nextAttemptId, session, req, advanced>>

do_reset_view ==
    \/ \E i \in AttemptIds : DoResetFetch(i)
    \/ DoResetAnswers
    \/ DoResetAttempt
    \/ DoResetParticipant

\* -------------------------------------------- staff_import_questions_view
\* Quiz.per_question_seconds of a Quiz created without it.
DefaultPerQuestionSeconds == 50

\* No Quiz row with the title of the domain.
NoQuiz == [live |-> FALSE, is_active |-> FALSE, questions |-> 0, per_question_seconds |-> 0]

\* A sheet whose name maps to a domain: whether its header row has the
\* columns text, a, b and correct, and its number of rows with a text. The
\* Choice rows of a Question are created and deleted with it.
Sheets == [domain : Domains, columns : BOOLEAN, rows : 0..NumQuestions]
Workbooks == UNION {[1..n -> Sheets] : n \in 0..MaxSheets}

\* The Quiz rows after _get_or_create_quiz_for_domain(d): the Quiz with the
\* title of the domain is created inactive when there is none.
_get_or_create_quiz_for_domain(q, d) ==
    IF q[d].live THEN q
    ELSE [q EXCEPT ![d] = [live |-> TRUE, is_active |-> FALSE, questions |-> 0,
                           per_question_seconds |-> DefaultPerQuestionSeconds]]

\* Question.objects.filter(quiz=quiz).delete() and one Question per row.
_replace_questions_for_quiz(q, sh) == [q EXCEPT ![sh.domain].questions = sh.rows]

\* The body of the transaction from sheet k on: ok with the Quiz rows at its
\* end, or not ok when a sheet lacks a required column (ValueError).
RECURSIVE ImportSheets(_, _, _, _, _)
ImportSheets(q, wb, k, preview_only, activate) ==
    IF k > Len(wb) THEN [ok |-> TRUE, quiz |-> q]
    ELSE LET sh == wb[k]
             got == _get_or_create_quiz_for_domain(q, sh.domain)
             replaced == _replace_questions_for_quiz(got, sh)
         IN  IF ~sh.columns THEN [ok |-> FALSE, quiz |-> q]
             ELSE IF preview_only THEN ImportSheets(got, wb, k + 1, preview_only, activate)
             ELSE ImportSheets(IF activate THEN [replaced EXCEPT ![sh.domain].is_active = TRUE]
                                           ELSE replaced,
                               wb, k + 1, preview_only, activate)

\* POST of the import page: transaction.atomic() rolls every write back when
\* the body raises; a workbook without a domain sheet writes nothing.
staff_import_questions_view(wb, preview_only, activate) ==
    LET done == ImportSheets(quiz, wb, 1, preview_only, activate)
    IN  /\ quiz' = IF Len(wb) > 0 /\ done.ok THEN done.quiz ELSE quiz
        /\ UNCHANGED <<now, db, session, req, staff, advanced>>

\* ---------------------------------------------------------- specifications
Next ==
    \/ Tick
    \/ \E s \in Sessions, p \in Participants : login_view(s, p)
    \/ \E s \in Sessions : logout_view(s)
    \/ choose_domain_view(Slots, Sessions)
    \/ confirm_view(Slots, Sessions)
    \/ question_view(Slots, Sessions)
    \/ question_view_lock(Slots)
    \/ finish_view(Slots, Sessions)
    \/ staff_force_finish_attempt_view
    \/ do_finish_view
    \/ staff_reset_attempt_view
    \/ do_reset_view
    \/ \E r \in Slots, s \in Sessions : QuestionRefuse(r, s)
    \/ \E r \in Slots : QuestionRedirect(r)
    \/ \E wb \in Workbooks, preview_only \in BOOLEAN, activate \in BOOLEAN :
           staff_import_questions_view(wb, preview_only, activate)

Spec == Init /\ [][Next]_vars

\* The creation gate under double submission: one browser session with two
\* requests in flight, and the staff overrides.
NextGate ==
    \/ Tick
    \/ \E p \in Candidates : login_view("s1", p)
    \/ logout_view("s1")
    \/ confirm_view(Slots, {"s1"})
    \/ staff_force_finish_attempt_view
    \/ staff_reset_attempt_view
    \/ do_reset_view

SpecGate == Init /\ [][NextGate]_vars

\* Two browser sessions of one participant at the gate, two requests in flight.
NextSessions ==
    \/ Tick
    \/ \E s \in Sessions, p \in Candidates : login_view(s, p)
    \/ choose_domain_view(Slots, Sessions)
    \/ confirm_view(Slots, Sessions)

SpecSessions == Init /\ [][NextSessions]_vars

\* One Attempt in progress: participant 1 has logged in at time 0 in session
\* s1 (only the deputy window is open) and confirmed, which created Attempt 1.
AttemptInProgress ==
    /\ now = 0
    /\ participant = [p \in Participants |->
           [locked_domain |-> IF p = 1 THEN "deputy" ELSE "",
            has_taken_exam |-> (p = 1),
            is_allowed |-> TRUE, enrollments |-> Domains]]
    /\ attempt = [i \in AttemptIds |->
           IF i = 1 THEN [NoAttempt EXCEPT !.live = TRUE, !.participant = 1,
                                           !.domain = "deputy", !.session_key = "s1"]
           ELSE NoAttempt]
    /\ answer = [k \in AttemptIds \X QIdx |-> NoAnswer]
    /\ nextAttemptId = 2
    /\ session = [s \in Sessions |->
           IF s = "s1" THEN [participant_id |-> 1, confirmed |-> TRUE, attempt_id |-> 1,
                             selected_domain |-> "deputy", open_domains |-> {}]
           ELSE EmptySession]
    /\ req = [r \in Slots |-> IdleReq]
    /\ staff = IdleStaff
    /\ advanced = [k \in AttemptIds \X QIdx |-> 0]

InitExam ==
    /\ quiz = [d \in Domains |-> ConfiguredQuiz]
    /\ AttemptInProgress

\* The exam in progress: question_view requests (two in flight at once) of the
\* session that holds the Attempt, the clock, and staff force-finish.
NextExam ==
    \/ Tick
    \/ question_view(Slots, {"s1"})
    \/ staff_force_finish_attempt_view
    \/ do_finish_view
    \/ \E Q \in SUBSET AttemptIds : action_force_finish(Q)

SpecExam == InitExam /\ [][NextExam]_vars

\* Staff resets of an Attempt in progress: one request of the participant at a
\* time (question_view, and confirm_view to start again), and both reset views.
NextReset ==
    \/ Tick
    \/ confirm_view({"r1"}, {"s1"})
    \/ question_view({"r1"}, {"s1"})
    \/ \E r \in {"r1"} : QuestionLock(r)
    \/ staff_reset_attempt_view
    \/ do_reset_view

SpecReset == InitExam /\ [][NextReset]_vars

\* A second browser session of the participant of the Attempt in progress:
\* it logs in and confirms (the participant is locked and has has_taken_exam
\* set, so the request never reaches the lock write or the creation), and
\* both sessions send question_view requests.
NextResume ==
    \/ Tick
    \/ \E p \in Candidates : login_view("s2", p)
    \/ ConfirmStart("r1", "s2")
    \/ ConfirmFind("r1")
    \/ question_view({"r1"}, Sessions)

SpecResume == InitExam /\ [][NextResume]_vars

\* The gate while staff grant and revoke permissions: one browser session,
\* one request at a time.
NextPermission ==
    \/ Tick
    \/ \E p \in Candidates : login_view("s1", p)
    \/ confirm_view({"r1"}, {"s1"})
    \/ \E p \in Candidates, v \in BOOLEAN : ParticipantAdminSetAllowed(p, v)
    \/ \E p \in Candidates, d \in Domains, v \in BOOLEAN :
           EnrollmentAdminSetAllowed(p, d, v)

SpecPermission == Init /\ [][NextPermission]_vars

\* Every participant-facing request of one browser session, one at a time
\* (question POSTs carry no choice), and both staff resets.
NextUnlock ==
    \/ Tick
    \/ \E p \in Candidates : login_view("s1", p)
    \/ logout_view("s1")
    \/ choose_domain_view({"r1"}, {"s1"})
    \/ confirm_view({"r1"}, {"s1"})
    \/ \E m \in {"GET", "POST"} : QuestionStart("r1", "s1", m, <<"missing", 0>>)
    \/ QuestionStep("r1")
    \/ question_view_lock({"r1"})
    \/ staff_reset_attempt_view
    \/ do_reset_view

SpecUnlock == Init /\ [][NextUnlock]_vars

\* The form of question 0 submitted again and again: every POST of the
\* session carries the correct Choice of question 0, at most two requests are
\* in flight at once, and the page is also loaded with GET.
NextReplay ==
    \/ Tick
    \/ \E r \in Slots : QuestionStart(r, "s1", "GET", <<"missing", 0>>)
    \/ \E r \in Slots : QuestionStart(r, "s1", "POST", <<"right", 0>>)
    \/ \E r \in Slots : QuestionStep(r)

SpecReplay == InitExam /\ [][NextReplay]_vars

\* Quiz.per_question_seconds is a PositiveIntegerField staff set in the admin:
\* the values an Attempt in progress may find on its quiz.
SecondsValues == {0, PerQuestionSeconds, 4, 5, 6, 3600, 3601}

InitTimer ==
    /\ quiz \in {[d \in Domains |-> [ConfiguredQuiz EXCEPT !.per_question_seconds = v]] :
                    v \in SecondsValues}
    /\ AttemptInProgress

\* The exam in progress under each per_question_seconds, one request at a time.
NextTimer ==
    \/ Tick
    \/ question_view({"r1"}, {"s1"})

SpecTimer == InitTimer /\ [][NextTimer]_vars

\* Question banks as staff may leave them: the active quiz of a domain has its
\* questions or none yet (staff_import_questions_view deletes and re-creates them).
InitBank ==
    /\ now = 0
    /\ quiz \in [Domains -> {[ConfiguredQuiz EXCEPT !.questions = n] : n \in {0, NumQuestions}}]
    /\ participant = [p \in Participants |->
           [locked_domain |-> "", has_taken_exam |-> FALSE,
            is_allowed |-> TRUE, enrollments |-> Domains]]
    /\ attempt = [i \in AttemptIds |-> NoAttempt]
    /\ answer = [k \in AttemptIds \X QIdx |-> NoAnswer]
    /\ nextAttemptId = 1
    /\ session = [s \in Sessions |-> EmptySession]
    /\ req = [r \in Slots |-> IdleReq]
    /\ staff = IdleStaff
    /\ advanced = [k \in AttemptIds \X QIdx |-> 0]

\* From login to the end of the exam in one browser session, one request at
\* a time (question POSTs carry no choice).
NextBank ==
    \/ Tick
    \/ \E p \in Candidates : login_view("s1", p)
    \/ confirm_view({"r1"}, {"s1"})
    \/ \E m \in {"GET", "POST"} : QuestionStart("r1", "s1", m, <<"missing", 0>>)
    \/ QuestionStep("r1")

SpecBank == InitBank /\ [][NextBank]_vars

\* The participant of the Attempt in progress loads the question page and the
\* finish page, one request at a time.
NextFinish ==
    \/ Tick
    \/ question_view({"r1"}, {"s1"})
    \/ finish_view({"r1"}, {"s1"})

SpecFinish == InitExam /\ [][NextFinish]_vars

\* Question imports on every state of the Quiz table: per domain no Quiz, or
\* a Quiz, active or not, with up to NumQuestions questions.
InitImport ==
    /\ now = 0
    /\ quiz \in [Domains -> {NoQuiz} \cup
                   {[ConfiguredQuiz EXCEPT !.is_active = b, !.questions = n] :
                      b \in BOOLEAN, n \in 0..NumQuestions}]
    /\ participant = [p \in Participants |->
           [locked_domain |-> "", has_taken_exam |-> FALSE,
            is_allowed |-> TRUE, enrollments |-> Domains]]
    /\ attempt = [i \in AttemptIds |-> NoAttempt]
    /\ answer = [k \in AttemptIds \X QIdx |-> NoAnswer]
    /\ nextAttemptId = 1
    /\ session = [s \in Sessions |-> EmptySession]
    /\ req = [r \in Slots |-> IdleReq]
    /\ staff = IdleStaff
    /\ advanced = [k \in AttemptIds \X QIdx |-> 0]

NextImport ==
    \/ Tick
    \/ \E wb \in Workbooks, preview_only \in BOOLEAN, activate \in BOOLEAN :
           staff_import_questions_view(wb, preview_only, activate)

SpecImport == InitImport /\ [][NextImport]_vars

\* The life of Attempt 1: its questions are answered or time out, staff
\* force-finish it through the three entry points and reset it through both.
NextLifecycle ==
    \/ Tick
    \/ question_view({"r1"}, {"s1"})
    \/ staff_force_finish_attempt_view
    \/ do_finish_view
    \/ \E Q \in SUBSET AttemptIds : action_force_finish(Q)
    \/ staff_reset_attempt_view
    \/ do_reset_view

SpecLifecycle == InitExam /\ [][NextLifecycle]_vars

\* A browser session that holds the Attempt of participant 1 and is used
\* for a login of either participant; question requests of the session are
\* served or refused.
NextGuard ==
    \/ Tick
    \/ \E p \in Participants : login_view("s1", p)
    \/ confirm_view({"r1"}, {"s1"})
    \/ \E m \in {"GET", "POST"} : QuestionStart("r1", "s1", m, <<"missing", 0>>)
    \/ QuestionStep("r1")
    \/ QuestionRefuse("r1", "s1")
    \/ QuestionRedirect("r1")

SpecGuard == InitExam /\ [][NextGuard]_vars

\* Two browser sessions of one participant, one request at a time: both log
\* in and confirm, the second takes the exam (question POSTs carry no
\* choice), and staff reset the Attempt from the staff page.
NextBlocked ==
    \/ Tick
    \/ \E s \in Sessions, p \in Candidates : login_view(s, p)
    \/ confirm_view({"r1"}, Sessions)
    \/ \E m \in {"GET", "POST"} : QuestionStart("r1", "s2", m, <<"missing", 0>>)
    \/ QuestionStep("r1")
    \/ question_view_lock({"r1"})
    \/ staff_reset_attempt_view

SpecBlocked == Init /\ [][NextBlocked]_vars

\* ------------------------------------------------------------------ claims
\* The requests in flight that hold Attempt i.
InFlight(i) == {r \in Slots : req[r].pc # "idle" /\ req[r].aid = i}

CorrectAnswers(i) ==
    {q \in QIdx : answer[<<i, q>>].live /\ answer[<<i, q>>].selected_choice = "right"}

\* C1: in every reachable state at most one unfinished Attempt exists per
\* (participant, domain).
C1_AtMostOneUnfinished ==
    \A p \in Participants, d \in Domains : Cardinality(OpenAttempts(p, d)) <= 1

\* C2: while has_taken_exam is true no step creates an Attempt row for the
\* participant, and a confirm POST that ends then leaves the session's attempt
\* as the request found it (rejected) or sets it to an Attempt that existed
\* unfinished (resumed).
C2_NoNewAttemptOnceTaken ==
    [][\A p \in Participants : participant[p].has_taken_exam =>
          /\ \A i \in AttemptIds :
                attempt'[i].live /\ attempt'[i].participant = p => attempt[i].live
          /\ \A r \in Slots :
                (req[r].pc \in {"c_find", "c_create"} /\ req[r].pid = p /\ req'[r].pc = "idle")
                => \/ session'[req[r].sess].attempt_id = req[r].sd.attempt_id
                   \/ session'[req[r].sess].attempt_id \in OpenAttempts(p, req[r].dom)]_vars

\* C2 witness: a double-submitted confirm POST has reached the locked section
\* after the other request raised has_taken_exam.
C2_Witness ==
    \E r \in Slots : req[r].pc = "c_create" /\ participant[req[r].pid].has_taken_exam

\* C3: absent a staff reset, current_index of an Attempt never decreases and
\* never exceeds the number of questions.
C3_MonotonicPointer ==
    [][\A i \in AttemptIds :
          (attempt[i].live /\ attempt'[i].live /\ attempt'[i].purges = attempt[i].purges)
          => /\ attempt'[i].current_index >= attempt[i].current_index
             /\ attempt'[i].current_index <= TotalQuestions(attempt[i].domain)]_vars

\* C4: an Answer row whose answered_at is set keeps its answered_at and its
\* selected_choice for as long as the row exists (one row per attempt and
\* question is what the rows' key states).
C4_ExactlyOnceAnswer ==
    [][\A k \in AttemptIds \X QIdx :
          (answer[k].live /\ answer[k].answered_at # NoTime /\ answer'[k].live)
          => /\ answer'[k].answered_at = answer[k].answered_at
             /\ answer'[k].selected_choice = answer[k].selected_choice]_vars

\* C5: GET auto-advance moves the pointer of an Attempt off a given question
\* (and counts it in timed_out_count) at most once.
C5_AdvanceOnce == \A k \in AttemptIds \X QIdx : advanced[k] <= 1

\* C6: a non-empty locked_domain never changes to another domain, and an
\* Attempt created for a locked participant is in the locked domain.
C6_LockStable ==
    [][\A p \in Participants : participant[p].locked_domain # "" =>
          /\ participant'[p].locked_domain \in {"", participant[p].locked_domain}
          /\ \A i \in AttemptIds :
                (~attempt[i].live /\ attempt'[i].live /\ attempt'[i].participant = p)
                => attempt'[i].domain = participant[p].locked_domain]_vars

\* C7: a finished Attempt that no request in flight still holds has score equal
\* to the number of its Answers whose selected choice is correct.
C7_ScoreCorrect ==
    \A i \in AttemptIds :
        (attempt[i].live /\ attempt[i].is_finished /\ InFlight(i) = {} /\ staff.pc = "idle")
        => attempt[i].score = Cardinality(CorrectAnswers(i))

\* C8: when a staff reset of an Attempt completes, no Attempt row and no Answer
\* row of that attempt remains and the participant is un-gated and unlocked.
C8_ResetLeavesNothing ==
    [][((staff.pc = "vr_txn" /\ attempt[staff.aid].live) \/ staff.pc = "ar_participant")
       /\ staff'.pc = "idle"
       => /\ ~attempt'[staff.aid].live
          /\ \A q \in QIdx : ~answer'[<<staff.aid, q>>].live
          /\ ~participant'[staff.pid].has_taken_exam
          /\ participant'[staff.pid].locked_domain = ""]_vars

\* C9: no state has the Attempt of a reset in progress deleted (its Answers
\* with it) while the participant still has has_taken_exam set or a locked
\* domain.
C9_ResetAtomic ==
    (staff.pc \in {"vr_txn", "ar_answers", "ar_attempt", "ar_participant"}
     /\ ~attempt[staff.aid].live)
    => /\ ~participant[staff.pid].has_taken_exam
       /\ participant[staff.pid].locked_domain = ""

\* C10: a confirm POST that finds an unfinished Attempt of the participant
\* bound to another session key does not hand that Attempt to the requesting
\* session, creates no Attempt and leaves the Attempt's current_index alone.
C10_OtherSessionRefused ==
    [][\A r \in Slots :
          (req[r].pc = "c_find" /\ req'[r].pc # "c_find")
          => \A i \in OpenAttempts(req[r].pid, req[r].dom) :
                attempt[i].session_key # req[r].sess
                => /\ session'[req[r].sess].attempt_id # i
                   /\ req'[r].pc = "idle"
                   /\ attempt' = attempt]_vars

\* The positions of a question_view request once it has passed the session and
\* ownership checks of lines 621-636.
QuestionPcs == {"q_block", "q_lock", "q_ans", "q_noq"}

\* C11: a question_view request gets past its entry checks (and so goes on to
\* read the current question of the Attempt and to write to it) only when the
\* requesting session's key is the Attempt's stored session_key.
C11_SessionKeyRevalidated ==
    [][\A r \in Slots :
          (req[r].pc = "idle" /\ req'[r].pc \in QuestionPcs)
          => attempt[req'[r].aid].session_key = req'[r].sess]_vars

\* C12: absent a staff reset, a finished Attempt keeps its current_index, score
\* and finished_reason in every step.
C12_FinishedImmutable ==
    [][\A i \in AttemptIds :
          (attempt[i].live /\ attempt[i].is_finished /\ attempt'[i].live
           /\ attempt'[i].purges = attempt[i].purges)
          => /\ attempt'[i].current_index = attempt[i].current_index
             /\ attempt'[i].score = attempt[i].score
             /\ attempt'[i].finished_reason = attempt[i].finished_reason]_vars

\* C13: when a question_view request finishes an Attempt because the pointer
\* reached the number of questions, finished_reason is "timeout" if the
\* Attempt's timed_out_count is above 0 and "normal" otherwise.
C13_TimeoutReason ==
    [][\A r \in Slots :
          LET i == req[r].aid
          IN  (req[r].pc \in {"q_save", "q_noq"} /\ req'[r].pc # req[r].pc
               /\ attempt[i].live /\ ~attempt[i].is_finished /\ attempt'[i].is_finished)
              => attempt'[i].finished_reason =
                    IF attempt[i].timed_out_count > 0 THEN "timeout" ELSE "normal"]_vars

\* C14: a staff force-finish (either view, or the admin action) that changes
\* an Attempt sets is_finished, finished_reason "forced" and finished_at = now
\* and leaves every other field of the Attempt and all Answer rows as they
\* were; both views do set the three fields of the Attempt they fetched.
C14_ForceFinishFrame ==
    [][/\ \A i \in AttemptIds :
             (req' = req /\ attempt[i].live /\ attempt'[i] # attempt[i])
             => /\ attempt'[i] = [attempt[i] EXCEPT !.is_finished = TRUE,
                                                    !.finished_reason = "forced",
                                                    !.finished_at = now]
                /\ answer' = answer
       /\ (staff.pc \in {"ff_save", "df_save"} /\ staff'.pc = "idle"
           /\ attempt[staff.aid].live)
          => /\ attempt'[staff.aid].is_finished
             /\ attempt'[staff.aid].finished_reason = "forced"
             /\ attempt'[staff.aid].finished_at = now]_vars

\* C14 witness: an Attempt force-finished part-way, with an Answer row, its
\* pointer short of the number of questions.
C14_Witness ==
    \E i \in AttemptIds :
        /\ attempt[i].live /\ attempt[i].is_finished
        /\ attempt[i].finished_reason = "forced"
        /\ attempt[i].current_index = 1
        /\ answer[<<i, 0>>].live

\* C15: a confirm POST that ends without handing an Attempt to the session
\* (rejected: no open window, or has_taken_exam with nothing to resume) leaves
\* the Participant, Attempt and Answer rows as they were.
C15_RejectionMutatesNothing ==
    [][\A r \in Slots :
          (req[r].pc \in {"c_lock", "c_find", "c_create"} /\ req'[r].pc = "idle"
           /\ session'[req[r].sess].attempt_id = req[r].sd.attempt_id)
          => /\ participant' = participant
             /\ attempt' = attempt
             /\ answer' = answer]_vars

\* C16: an Attempt is created only at a time now with
\* starts_at <= now < ends_at for the window of the Attempt's domain.
C16_HalfOpenWindow ==
    [][\A i \in AttemptIds :
          (~attempt[i].live /\ attempt'[i].live)
          => /\ WindowStartsAt(attempt'[i].domain) <= now
             /\ now < WindowEndsAt(attempt'[i].domain)]_vars

\* C17: an Attempt is created only for a participant with is_allowed set who
\* has an allowed Enrollment in the Attempt's domain at that time.
C17_PermissionAtCreation ==
    [][\A i \in AttemptIds :
          (~attempt[i].live /\ attempt'[i].live)
          => /\ participant[attempt'[i].participant].is_allowed
             /\ attempt'[i].domain \in AllowedDomains(attempt'[i].participant)]_vars

\* C18: has_taken_exam goes from true to false, and a non-empty locked_domain
\* is cleared, only in the step that completes a staff reset.
C18_OnlyResetUnlocks ==
    [][\A p \in Participants :
          (\/ participant[p].has_taken_exam /\ ~participant'[p].has_taken_exam
           \/ participant[p].locked_domain # "" /\ participant'[p].locked_domain = "")
          => /\ staff.pc \in {"vr_txn", "ar_participant"}
             /\ staff'.pc = "idle"
             /\ staff.pid = p]_vars

\* C18 witness: a participant un-gated by a reset that kept the Attempt row,
\* with a request of this participant in flight.
C18_Witness ==
    \E i \in AttemptIds, r \in Slots :
        /\ attempt[i].live /\ attempt[i].purges = 1
        /\ ~participant[attempt[i].participant].has_taken_exam
        /\ participant[attempt[i].participant].locked_domain = ""
        /\ req[r].pc # "idle" /\ req[r].pid = attempt[i].participant

\* C19: a POST for the current question with a choice of that question, made
\* strictly before started_at + per_question_seconds, records the choice and
\* answered_at = now, adds 1 to the score iff the choice is correct, leaves
\* timed_out_count alone and moves the pointer one question on.
C19_PostBeforeDeadline ==
    [][\A r \in Slots :
          LET k == <<req[r].aid, req[r].a.current_index>>
          IN  (/\ req[r].pc = "q_go" /\ req[r].method = "POST" /\ req'[r].pc = "q_save"
               /\ req[r].sel \in {"right", "wrong"}
               /\ now < _attempt_deadline(req[r].ans.started_at, PerQuestionSeconds))
              => /\ answer'[k].selected_choice = req[r].sel
                 /\ answer'[k].answered_at = now
                 /\ req'[r].a.score = req[r].a.score + (IF req[r].sel = "right" THEN 1 ELSE 0)
                 /\ req'[r].tcount = req[r].tcount
                 /\ req'[r].a.current_index = req[r].a.current_index + 1]_vars

\* C20: a POST made at or after the deadline records a null choice and
\* answered_at = now, keeps the score and moves the pointer one question on;
\* and when a POST has saved the Attempt, the stored timed_out_count includes
\* the timeout the request counted.
C20_LatePostCounted ==
    [][\A r \in Slots :
          LET k == <<req[r].aid, req[r].a.current_index>>
          IN  /\ (/\ req[r].pc = "q_go" /\ req[r].method = "POST" /\ req'[r].pc = "q_save"
                  /\ now >= _attempt_deadline(req[r].ans.started_at, PerQuestionSeconds))
                 => /\ answer'[k].selected_choice = "null"
                    /\ answer'[k].answered_at = now
                    /\ req'[r].a.score = req[r].a.score
                    /\ req'[r].tcount = req[r].tcount + 1
                    /\ req'[r].a.current_index = req[r].a.current_index + 1
              /\ (/\ req[r].pc \in {"q_save", "q_save2"} /\ req'[r].pc = "idle"
                  /\ attempt[req[r].aid].live)
                 => attempt'[req[r].aid].timed_out_count >= req[r].tcount]_vars

\* C21: when a GET finds the deadline of the unanswered current question
\* elapsed, the auto-advance is the transition of a late submission: the
\* question's Answer gets answered_at = now with a null choice,
\* timed_out_count goes up by one, current_index by one, the score stays.
C21_GetAutoAdvance ==
    [][\A r \in Slots :
          LET aid == req[r].aid
              k == <<aid, req[r].a.current_index>>
          IN  (/\ req[r].pc = "q_go" /\ req[r].method = "GET" /\ req'[r].pc = "idle"
               /\ now >= _attempt_deadline(req[r].ans.started_at,
                                            quiz[req[r].dom].per_question_seconds)
               /\ attempt[aid].live /\ answer[k].answered_at = NoTime)
              => /\ answer'[k].answered_at = now
                 /\ answer'[k].selected_choice = "null"
                 /\ attempt'[aid].timed_out_count = req[r].tcount + 1
                 /\ attempt'[aid].current_index = req[r].a.current_index + 1
                 /\ attempt'[aid].score = attempt[aid].score]_vars

\* C22: a POST for a question that already has a recorded answer is a no-op
\* on the Answer rows: when every POST answers question 0 and question 0 has
\* its answer recorded, a further POST changes no Answer row (neither the one
\* of question 0 nor, as an answer or a skip, the one of another question).
C22_ResubmissionNoOp ==
    [][\A r \in Slots :
          (/\ req[r].pc = "q_go" /\ req[r].method = "POST" /\ req'[r].pc # "q_go"
           /\ answer[<<req[r].aid, 0>>].answered_at # NoTime)
          => answer' = answer]_vars

\* C23: a POST before the deadline that is an explicit skip, or carries no
\* choice id, an unknown one, or a choice of another question, is not
\* rejected: it records a null choice with answered_at = now, moves the pointer
\* one question on and leaves the score; and the saves of a POST leave the
\* stored timed_out_count alone.
C23_ImplicitSkip ==
    [][\A r \in Slots :
          LET aid == req[r].aid
              k == <<aid, req[r].a.current_index>>
          IN  /\ (/\ req[r].pc = "q_go" /\ req[r].method = "POST" /\ req'[r].pc # "q_go"
                  /\ req[r].sel \in {"null", "invalid"}
                  /\ now < _attempt_deadline(req[r].ans.started_at,
                                             quiz[req[r].dom].per_question_seconds))
                 => /\ req'[r].pc = "q_save"
                    /\ answer'[k].selected_choice = "null"
                    /\ answer'[k].answered_at = now
                    /\ req'[r].a.current_index = req[r].a.current_index + 1
                    /\ req'[r].a.score = req[r].a.score
              /\ (req[r].pc \in {"q_save", "q_save2"} /\ req'[r].pc # req[r].pc)
                 => attempt'[aid].timed_out_count = attempt[aid].timed_out_count]_vars

\* C24: the started_at of an Answer row is set when the row is created and
\* never changes while the row exists: reloading the question, logging in from
\* another session or resuming through confirm leaves the deadline where it was.
C24_StartedAtFixed ==
    [][\A k \in AttemptIds \X QIdx :
          (answer[k].live /\ answer'[k].live /\ answer'[k].pk = answer[k].pk)
          => answer'[k].started_at = answer[k].started_at]_vars

\* A request of the session that resumed through confirm has read, after the
\* clock moved, the Answer row of a question presented earlier.
C24_Witness ==
    \E r \in Slots :
        /\ req[r].pc = "q_go" /\ req[r].sess = "s2"
        /\ req[r].ans.started_at # NoTime /\ req[r].ans.started_at < now
        /\ answer[<<req[r].aid, req[r].a.current_index>>].started_at = req[r].ans.started_at

\* C25: the time budget of a question is per_question_seconds clamped to
\* [5, 3600]: for a request that has read the Answer of its current question,
\* the deadline it uses is started_at + min(3600, max(5, v)) seconds.
C25_ClampedBudget ==
    \A r \in Slots :
        LET v == quiz[req[r].dom].per_question_seconds
            clamped == IF v < 5 THEN 5 ELSE IF v > 3600 THEN 3600 ELSE v
        IN  req[r].pc = "q_go"
            => _attempt_deadline(req[r].ans.started_at, v)
                   = req[r].ans.started_at + clamped * TicksPerSecond

\* C26: no Attempt is created for a domain whose active quiz has no question.
C26_NoAttemptOnEmptyQuiz ==
    [][\A i \in AttemptIds :
          (~attempt[i].live /\ attempt'[i].live)
          => quiz[attempt'[i].domain].questions > 0]_vars

\* C27: when question_view finds that the quiz of an unfinished Attempt has no
\* question, the Attempt is finished in that request with reason "forced".
C27_EmptyQuizForced ==
    [][\A r \in Slots :
          LET aid == req[r].aid
          IN  (/\ req[r].pc = "q_noq" /\ req'[r].pc = "idle"
               /\ quiz[req[r].dom].questions = 0
               /\ attempt[aid].live /\ ~attempt[aid].is_finished)
              => /\ attempt'[aid].is_finished
                 /\ attempt'[aid].finished_reason = "forced"]_vars

\* C28: after a participant's request to the finish endpoint the Attempt of
\* that session is finished; when the request found it unfinished with
\* questions left, its reason is "forced".
C28_FinishFinalizes ==
    [][\A r \in Slots :
          LET aid == req[r].aid
          IN  (/\ req[r].pc = "f_render" /\ req'[r].pc = "idle"
               /\ aid # NoId /\ attempt[aid].live)
              => /\ attempt'[aid].is_finished
                 /\ (~attempt[aid].is_finished
                       /\ attempt[aid].current_index < TotalQuestions(attempt[aid].domain))
                    => attempt'[aid].finished_reason = "forced"]_vars

\* C29: in every state between requests (no participant or staff request in
\* flight) an Attempt whose current_index has reached the number of questions
\* of its quiz is finished.
C29_ExhaustedIsFinished ==
    ((\A r \in Slots : req[r].pc = "idle") /\ staff.pc = "idle")
    => \A i \in AttemptIds :
           (attempt[i].live /\ attempt[i].current_index >= TotalQuestions(attempt[i].domain))
           => attempt[i].is_finished

\* C30: in the state right after an Attempt is created, the one other
\* requests see it in, its participant has has_taken_exam set and is locked to
\* the Attempt's domain.
C30_CreationMarksParticipant ==
    [][\A i \in AttemptIds :
          (~attempt[i].live /\ attempt'[i].live)
          => /\ participant'[attempt'[i].participant].has_taken_exam
             /\ participant'[attempt'[i].participant].locked_domain = attempt'[i].domain]_vars

\* C31: in every reachable state the finished_reason of every Attempt is one
\* of "normal", "timeout", "forced".
C31_ReasonEnumeration ==
    \A i \in AttemptIds :
        attempt[i].live => attempt[i].finished_reason \in {"normal", "timeout", "forced"}

\* C32: force-finish applied to an Attempt that is already finished changes
\* nothing of it: when the staff view or the admin view completes, or the bulk
\* admin action runs, on a finished Attempt, its is_finished, finished_reason,
\* finished_at, score and current_index stay as they were.
C32_ForceFinishIdempotent ==
    [][\A i \in AttemptIds :
          (/\ attempt[i].live /\ attempt[i].is_finished
           /\ \/ staff.pc \in {"ff_save", "df_save"} /\ staff.aid = i /\ staff'.pc = "idle"
              \/ staff.pc = "idle" /\ staff' = staff /\ req' = req /\ attempt' # attempt)
          => /\ attempt'[i].is_finished
             /\ attempt'[i].finished_reason = attempt[i].finished_reason
             /\ attempt'[i].finished_at = attempt[i].finished_at
             /\ attempt'[i].score = attempt[i].score
             /\ attempt'[i].current_index = attempt[i].current_index]_vars

C34_PreviewWritesNothing ==
    [][\A wb \in Workbooks, activate \in BOOLEAN :
          staff_import_questions_view(wb, TRUE, activate) => quiz' = quiz]_vars

\* C35: for every Attempt, in every state, score plus timed_out_count is at
\* most current_index, and current_index is at most the number of questions
\* of the quiz.
C35_CountersWithinIndex ==
    \A i \in AttemptIds :
        attempt[i].live =>
            /\ attempt[i].score + attempt[i].timed_out_count <= attempt[i].current_index
            /\ attempt[i].current_index <= TotalQuestions(attempt[i].domain)

\* C36: in every state a participant has at most one Attempt row, counting
\* the Attempts of every domain, finished or not.
C36_OneAttemptRowPerParticipant ==
    \A p \in Participants :
        Cardinality({i \in AttemptIds : attempt[i].live /\ attempt[i].participant = p}) <= 1

\* C37: a POST of the question page that found the current question of an
\* unfinished Attempt ends with current_index one above the value it read,
\* whatever choice it carries.
C37_PostAdvancesByOne ==
    [][\A r \in Slots :
          (/\ req[r].method = "POST"
           /\ req[r].pc \in {"q_go", "q_save", "q_save2"}
           /\ req'[r].pc = "idle"
           /\ attempt[req[r].aid].live)
          => attempt'[req[r].aid].current_index =
                 IF req[r].pc = "q_go" THEN req[r].a.current_index + 1
                 ELSE req[r].a.current_index]_vars

\* C38: in every state an Attempt has finished_at set exactly when it is
\* finished.
C38_FinishedAtIffFinished ==
    \A i \in AttemptIds :
        attempt[i].live => (attempt[i].finished_at # NoTime <=> attempt[i].is_finished)

\* An Attempt that was reset by staff and afterwards force-finished.
C38_Witness ==
    \E i \in AttemptIds :
        /\ attempt[i].live /\ attempt[i].purges > 0
        /\ attempt[i].is_finished /\ attempt[i].finished_reason = "forced"
        /\ attempt[i].finished_at # NoTime

====
